---------------------------- MODULE Spec2Model ----------------------------
(***************************************************************************)
(* Model of scripts/UpdateAGOL.py: UpdateAGOL.execute and the module-level *)
(* functions get_group_id, publish_service and share_service, run against  *)
(* a stubbed hosted platform (content items, groups, sharing) and a        *)
(* stubbed desktop toolkit (project, draft export, staging, file system).  *)
(*                                                                         *)
(* Every call into the platform or the toolkit is one step; a stub either  *)
(* returns or raises.  Python values are kept by type where the code only  *)
(* tests their truthiness; strings the code splits or rewrites are         *)
(* sequences of one-character strings.                                     *)
(*                                                                         *)
(* The function bodies are modelled as written.  (Line 135 of the file,    *)
(* in getParameterInfo, lacks a comma, so the file as a whole does not     *)
(* compile; the functions below are modelled as they read.)                *)
(***************************************************************************)
EXTENDS Integers, Sequences, FiniteSets, TLC

(***************************************************************************)
(* Bounds of the model.                                                    *)
(***************************************************************************)
\* items already on the platform when publish_service is called
MaxInitItems == 2
\* length of the group_names parameter string
MaxLen == 3
\* number of selected layers
MaxLayers == 2
\* length of the resolved group list handed to share_service directly
MaxGroups == 2

(***************************************************************************)
(* Small input sets.                                                       *)
(***************************************************************************)
Procs == {"A", "B"}
Names == {"Roads", "Parcels"}
Owners == {"alice", "bob"}
Folders == {"", "Transport"}
ItemTypes == {"Service Definition", "Feature Service"}
\* what a platform or toolkit call can raise: an ordinary Exception, and a
\* BaseException that is not an Exception
PlatformErrors == {"Exception", "KeyboardInterrupt"}
GroupChars == {"g", ";"}
LayerNames == {<<"a", " ", "b">>, <<"a", "_", "b">>}
TimeString == "2026-05-11_0930"

NoItem == 0
NoHandle == [item |-> 0, call |-> 0, overwrite |-> FALSE]
None == <<"None">>
NoSD == [service |-> "", path |-> ""]
NoArgs == [conn |-> [user |-> ""], service_name |-> "", content_owner |-> "",
           folder |-> "", service_definition |-> NoSD]

VARIABLES
    items,             \* platform content: sequence of items, id = index
    calls,             \* log of the content calls made on the platform
    pc,                \* publish_service: position of each invocation
    args,              \* publish_service: arguments of each invocation
    service_def_item,  \* publish_service local (item id, 0 when unbound)
    source_item,       \* publish_service local (item id, 0 when unbound)
    feature_service,   \* publish_service local / result
    caught,            \* exception that entered the except clause ("" none)
    error,             \* exception that left publish_service ("" none)
    entry,             \* which function the run entered
    epc,               \* position of execute / of the share_service call
    eerror,            \* exception that left execute or share_service
    params,            \* execute: the parameters read by position
    group_list,        \* execute: group_names after the split
    share_with_groups, \* execute: list built from get_group_id
    lookups,           \* outcome of each group search, in order
    li,                \* execute: index of the layer being processed
    files,             \* files on disk in SD_FOLDER
    sdFolder,          \* whether SD_FOLDER exists
    preexisting,       \* files found at the current layer's paths (ghost)
    removed,           \* log of os.remove calls
    staged,            \* files written by draft export / StageService
    publishCalls,      \* log of the calls of publish_service by execute
    shArgs,            \* share_service arguments
    shares             \* log of feature_service.share calls

psVars == <<pc, args, service_def_item, source_item, feature_service, caught, error>>
platVars == <<items, calls>>
exVars == <<params, group_list, share_with_groups, lookups, li, files, sdFolder,
            preexisting, removed, staged, publishCalls>>
shVars == <<shArgs, shares>>
vars == <<items, calls, pc, args, service_def_item, source_item, feature_service,
          caught, error, entry, epc, eerror, params, group_list, share_with_groups,
          lookups, li, files, sdFolder, preexisting, removed, staged, publishCalls,
          shArgs, shares>>

(***************************************************************************)
(* Helpers.                                                                *)
(***************************************************************************)
SeqsUpTo(S, n) == UNION {[1..k -> S] : k \in 0..n}

Range(s) == {s[i] : i \in 1..Len(s)}

\* every ordering of a finite set, as sequences without repetition
Orderings(S) ==
    {s \in [1..Cardinality(S) -> S] : \A i, j \in 1..Cardinality(S) : s[i] = s[j] => i = j}

CallsOf(p) == SelectSeq(calls, LAMBDA c : c.proc = p)

CountOp(p, op) == Cardinality({i \in 1..Len(calls) : calls[i].proc = p /\ calls[i].op = op})

Call(p, op, item, data, folder, overwrite, outcome, res, ret) ==
    [proc |-> p, op |-> op, item |-> item, data |-> data, folder |-> folder,
     overwrite |-> overwrite, outcome |-> outcome, res |-> res, ret |-> ret]

(***************************************************************************)
(* The platform stub.                                                      *)
(***************************************************************************)
\* conn.content.search(query="title:<name> AND owner:<owner>",
\*                     item_type="Service Definition")
Matches(it, service_name, content_owner) ==
    /\ it.type = "Service Definition"
    /\ it.title = service_name
    /\ it.owner = content_owner

MatchingIds(its, service_name, content_owner) ==
    {i \in 1..Len(its) : Matches(its[i], service_name, content_owner)}

SearchResults(its, service_name, content_owner) ==
    Orderings(MatchingIds(its, service_name, content_owner))

\* the item conn.content.add(item_properties={}, data=..., folder=...) creates:
\* the code names neither title nor type, both come from the uploaded package,
\* and the item belongs to the connected user
NewItem(conn, sd, folder) ==
    [title |-> sd.service, owner |-> conn.user, type |-> "Service Definition",
     data |-> sd.path, folder |-> folder, published |-> "no"]

ContentAddUpsert(its, it) ==
    IF \E i \in 1..Len(its) : Matches(its[i], it.title, it.owner)
    THEN LET i == CHOOSE j \in 1..Len(its) : Matches(its[j], it.title, it.owner)
         IN [its EXCEPT ![i] = it]
    ELSE Append(its, it)

ContentAdd(its, it) == Append(its, it)

\* service_def_item.update(data=str(service_definition))
ItemUpdate(its, id, sd) == [its EXCEPT ![id].data = sd.path]

\* item.publish(overwrite=...)
ItemPublish(its, id, overwrite) ==
    [its EXCEPT ![id].published = IF overwrite THEN "overwritten" ELSE "fresh"]

(***************************************************************************)
(* publish_service(conn, service_name, content_owner, folder,              *)
(*                 service_definition)                                     *)
(***************************************************************************)
\* `[0]` on the search result
SearchPickLast(res) == res[Len(res)]

SearchPick(res) == res[1]

\* the bare `except:` clause
ExceptCatchesIndexError(e) == e = "IndexError"

ExceptCatches(e) == TRUE

\* publish(overwrite=True) in the try block, publish() in the except block
OverwritePublishFlag == TRUE

CreatePublishFlagTrue == TRUE

CreatePublishFlag == FALSE

\* control flow of the function: where it goes after the call at `at` ended
\* with exception e ("" when it returned)
NextPcRetry(at, e) ==
    IF e = ""
    THEN CASE at = "search" -> "update"
           [] at = "update" -> "publish_ow"
           [] at = "publish_ow" -> "returned"
           [] at = "add" -> "publish_new"
           [] at = "publish_new" -> "returned"
    ELSE IF at \in {"search", "update", "publish_ow"} /\ ExceptCatches(e)
         THEN "add"
         ELSE IF at = "publish_new" THEN "add" ELSE "raised"

NextPc(at, e) ==
    IF e = ""
    THEN CASE at = "search" -> "update"
           [] at = "update" -> "publish_ow"
           [] at = "publish_ow" -> "returned"
           [] at = "add" -> "publish_new"
           [] at = "publish_new" -> "returned"
    ELSE IF at \in {"search", "update", "publish_ow"} /\ ExceptCatches(e)
         THEN "add"
         ELSE "raised"

\* what the caller does when publish_service returns or raises: execute goes
\* on to share_service, or ends with the exception (it has no handler)
ReturnToCaller(p) ==
    IF entry = "execute"
    THEN /\ epc' = "share"
         /\ shArgs' = [feature_service |-> feature_service'[p],
                       share_to_org |-> params.share_to_org,
                       share_to_everyone |-> params.share_to_everyone,
                       share_with_groups |-> share_with_groups]
         /\ UNCHANGED eerror
    ELSE UNCHANGED <<epc, eerror, shArgs>>

RaiseToCaller(e) ==
    IF entry = "execute"
    THEN epc' = "raised" /\ eerror' = e /\ UNCHANGED shArgs
    ELSE UNCHANGED <<epc, eerror, shArgs>>

\* one call of the try/except skeleton ended with e at position `at`
Step(p, at, e) ==
    /\ pc' = [pc EXCEPT ![p] = NextPc(at, e)]
    /\ IF e # "" /\ NextPc(at, e) = "add"
       THEN caught' = [caught EXCEPT ![p] = e]
       ELSE UNCHANGED caught
    /\ IF NextPc(at, e) = "raised"
       THEN error' = [error EXCEPT ![p] = e] /\ RaiseToCaller(e)
       ELSE /\ UNCHANGED error
            /\ IF NextPc(at, e) = "returned"
               THEN ReturnToCaller(p)
               ELSE UNCHANGED <<epc, eerror, shArgs>>

PS_Search(p) ==
    /\ pc[p] = "search"
    /\ \/ \E e \in PlatformErrors :
            /\ calls' = Append(calls, Call(p, "search", NoItem, "", "", FALSE, e, <<>>, NoHandle))
            /\ Step(p, "search", e)
            /\ UNCHANGED service_def_item
       \/ \E res \in SearchResults(items, args[p].service_name, args[p].content_owner) :
            /\ calls' = Append(calls, Call(p, "search", NoItem, "", "", FALSE, "", res, NoHandle))
            /\ IF res = <<>>
               THEN Step(p, "search", "IndexError") /\ UNCHANGED service_def_item
               ELSE /\ service_def_item' = [service_def_item EXCEPT ![p] = SearchPick(res)]
                    /\ Step(p, "search", "")
    /\ UNCHANGED <<items, args, source_item, feature_service, entry, shares>>
    /\ UNCHANGED exVars

PS_Update(p) ==
    /\ pc[p] = "update"
    /\ LET id == service_def_item[p]
           sd == args[p].service_definition
       IN \/ \E e \in PlatformErrors :
               /\ calls' = Append(calls, Call(p, "update", id, sd.path, "", FALSE, e, <<>>, NoHandle))
               /\ Step(p, "update", e)
               /\ UNCHANGED items
          \/ /\ calls' = Append(calls, Call(p, "update", id, sd.path, "", FALSE, "", <<>>, NoHandle))
             /\ items' = ItemUpdate(items, id, sd)
             /\ Step(p, "update", "")
    /\ UNCHANGED <<args, service_def_item, source_item, feature_service, entry, shares>>
    /\ UNCHANGED exVars

PS_PublishOverwrite(p) ==
    /\ pc[p] = "publish_ow"
    /\ LET id == service_def_item[p]
           h == [item |-> id, call |-> Len(calls) + 1, overwrite |-> OverwritePublishFlag]
       IN \/ \E e \in PlatformErrors :
               /\ calls' = Append(calls, Call(p, "publish", id, "", "", OverwritePublishFlag, e, <<>>, NoHandle))
               /\ UNCHANGED <<items, feature_service>>
               /\ Step(p, "publish_ow", e)
          \/ /\ calls' = Append(calls, Call(p, "publish", id, "", "", OverwritePublishFlag, "", <<>>, h))
             /\ items' = ItemPublish(items, id, OverwritePublishFlag)
             /\ feature_service' = [feature_service EXCEPT ![p] = h]
             /\ Step(p, "publish_ow", "")
    /\ UNCHANGED <<args, service_def_item, source_item, entry, shares>>
    /\ UNCHANGED exVars

PS_Add(p) ==
    /\ pc[p] = "add"
    /\ LET a == args[p]
           it == NewItem(a.conn, a.service_definition, a.folder)
       IN \/ \E e \in PlatformErrors :
               /\ calls' = Append(calls, Call(p, "add", NoItem, a.service_definition.path, a.folder, FALSE, e, <<>>, NoHandle))
               /\ UNCHANGED <<items, source_item>>
               /\ Step(p, "add", e)
          \/ /\ items' = ContentAdd(items, it)
             /\ LET id == CHOOSE i \in 1..Len(items') :
                              /\ items'[i] = it
                              /\ \A j \in 1..Len(items') : items'[j] = it => j <= i
                IN /\ calls' = Append(calls, Call(p, "add", id, a.service_definition.path, a.folder, FALSE, "", <<>>, NoHandle))
                   /\ source_item' = [source_item EXCEPT ![p] = id]
             /\ Step(p, "add", "")
    /\ UNCHANGED <<args, service_def_item, feature_service, entry, shares>>
    /\ UNCHANGED exVars

PS_PublishNew(p) ==
    /\ pc[p] = "publish_new"
    /\ LET id == source_item[p]
           h == [item |-> id, call |-> Len(calls) + 1, overwrite |-> CreatePublishFlag]
       IN \/ \E e \in PlatformErrors :
               /\ calls' = Append(calls, Call(p, "publish", id, "", "", CreatePublishFlag, e, <<>>, NoHandle))
               /\ UNCHANGED <<items, feature_service>>
               /\ Step(p, "publish_new", e)
          \/ /\ calls' = Append(calls, Call(p, "publish", id, "", "", CreatePublishFlag, "", <<>>, h))
             /\ items' = ItemPublish(items, id, CreatePublishFlag)
             /\ feature_service' = [feature_service EXCEPT ![p] = h]
             /\ Step(p, "publish_new", "")
    /\ UNCHANGED <<args, service_def_item, source_item, entry, shares>>
    /\ UNCHANGED exVars

(***************************************************************************)
(* share_service(feature_service, share_to_org, share_to_everyone,         *)
(*               share_with_groups)                                        *)
(***************************************************************************)
PyVals ==
    {[t |-> "bool", v |-> "True"], [t |-> "bool", v |-> "False"],
     [t |-> "str", v |-> ""], [t |-> "str", v |-> "True"], [t |-> "str", v |-> "False"],
     [t |-> "NoneType", v |-> "None"]}

\* Python truth value of a bool, a str or None
Truthy(x) ==
    CASE x.t = "bool" -> x.v = "True"
      [] x.t = "str" -> x.v # ""
      [] x.t = "NoneType" -> FALSE

\* `if share_to_org or share_to_everyone or share_with_groups:`
ShouldShareFlagsOnly(org, everyone, groups) == Truthy(org) \/ Truthy(everyone)

ShouldShare(org, everyone, groups) == Truthy(org) \/ Truthy(everyone) \/ Len(groups) > 0

\* after share_service returns: execute's loop takes the next layer or
\* returns; a direct call just returns
AfterShare ==
    IF entry = "execute" /\ li < Len(params.layers)
    THEN epc' = "layer_clean" /\ li' = li + 1
    ELSE epc' = "returned" /\ UNCHANGED li

ShareService ==
    /\ epc = "share"
    /\ LET a == shArgs
           c == [feature_service |-> a.feature_service, org |-> a.share_to_org,
                 everyone |-> a.share_to_everyone, groups |-> a.share_with_groups]
       IN IF ShouldShare(a.share_to_org, a.share_to_everyone, a.share_with_groups)
          THEN \/ \E e \in PlatformErrors :
                    /\ shares' = Append(shares, [call |-> c, outcome |-> e])
                    /\ epc' = "raised"
                    /\ eerror' = e
                    /\ UNCHANGED li
               \/ /\ shares' = Append(shares, [call |-> c, outcome |-> ""])
                  /\ AfterShare
                  /\ UNCHANGED eerror
          ELSE /\ AfterShare
               /\ UNCHANGED <<shares, eerror>>
    /\ UNCHANGED <<entry, shArgs, params, group_list, share_with_groups, lookups, files,
                   sdFolder, preexisting, removed, staged, publishCalls>>
    /\ UNCHANGED psVars
    /\ UNCHANGED platVars

(***************************************************************************)
(* get_group_id(group_name, owner, gis)                                    *)
(***************************************************************************)
\* the group a search by title and owner finds
GroupOf(title) == [id |-> <<"id">> \o title, title |-> title]

\* what gis.groups.search can do: raise, or return a list
GroupSearchOutcomes(title) ==
    {[exc |-> e, res |-> <<>>] : e \in PlatformErrors}
        \cup {[exc |-> "", res |-> <<>>], [exc |-> "", res |-> <<GroupOf(title)>>]}

\* the bare `except:` of get_group_id
GroupExceptCatches(e) == TRUE

\* the function, given what the search did: [value, exc]
GetGroupId(out) ==
    LET e == IF out.exc # "" THEN out.exc
             ELSE IF out.res = <<>> THEN "IndexError" ELSE ""
    IN IF e = "" THEN [value |-> out.res[1].id, exc |-> ""]
       ELSE IF GroupExceptCatches(e) THEN [value |-> None, exc |-> ""]
       ELSE [value |-> None, exc |-> e]

(***************************************************************************)
(* UpdateAGOL.execute(parameters, messages)                                *)
(***************************************************************************)
\* str.split(";"): one piece more than there are separators
RECURSIVE Split(_)
Split(s) ==
    IF \A i \in 1..Len(s) : s[i] # ";"
    THEN <<s>>
    ELSE LET i == CHOOSE k \in 1..Len(s) : s[k] = ";" /\ \A j \in 1..(k - 1) : s[j] # ";"
         IN <<SubSeq(s, 1, i - 1)>> \o Split(SubSeq(s, i + 1, Len(s)))

\* group_names = [] if group_names == "" else group_names.split(";")
GroupNames(s) == IF s = <<>> THEN <<>> ELSE Split(s)

\* layer.name.replace(" ", "_")
Replace(s) == [i \in 1..Len(s) |-> IF s[i] = " " THEN "_" ELSE s[i]]

\* os.path.join(SD_FOLDER, f"{name}_{time_string}_WebUpdate.sddraft") and .sd
DraftPath(layer) == [name |-> Replace(layer), time |-> TimeString, ext |-> "sddraft"]

SDPath(layer) == [name |-> Replace(layer), time |-> TimeString, ext |-> "sd"]

\* `for f in [draft_path, SD_path]:`
StalePathsDraftOnly(draft, sd) == <<draft>>

StalePaths(draft, sd) == <<draft, sd>>

\* the parameters of publish_service, and the keywords execute calls it with
PublishParams == {"conn", "service_name", "content_owner", "folder", "service_definition"}

PublishKwargs(layer) ==
    [service_name |-> layer, content_owner |-> params.content_owner,
     folder |-> params.folder_name,
     service_definition |-> [service |-> layer, path |-> SDPath(layer)]]

MissingArgs(kwargs) == PublishParams \ DOMAIN kwargs

ExecRaise(e) == epc' = "raised" /\ eerror' = e

\* lines 230-255: read the parameters, split the group names, make SD_FOLDER
ExecSetup ==
    /\ epc = "setup"
    /\ group_list' = GroupNames(params.group_names)
    /\ sdFolder' = TRUE
    /\ epc' = "connect"
    /\ UNCHANGED <<entry, eerror, params, share_with_groups, lookups, li, files,
                   preexisting, removed, staged, publishCalls>>
    /\ UNCHANGED <<psVars, platVars, shVars>>

\* lines 258-259: GIS(url, username, password)
ExecConnect ==
    /\ epc = "connect"
    /\ \/ \E e \in PlatformErrors : ExecRaise(e)
       \/ /\ epc' = IF group_list = <<>> THEN "project" ELSE "groups"
          /\ UNCHANGED eerror
    /\ UNCHANGED <<entry, exVars, psVars, platVars, shVars>>

\* lines 260-263: one element of the list comprehension
ExecGetGroupId ==
    /\ epc = "groups"
    /\ LET i == Len(share_with_groups) + 1
       IN \E out \in GroupSearchOutcomes(group_list[i]) :
            LET r == GetGroupId(out)
            IN /\ lookups' = Append(lookups, IF out.exc # "" THEN "raised"
                                             ELSE IF out.res = <<>> THEN "empty" ELSE "found")
               /\ IF r.exc # ""
                  THEN ExecRaise(r.exc) /\ UNCHANGED share_with_groups
                  ELSE /\ share_with_groups' = Append(share_with_groups, r.value)
                       /\ epc' = IF i = Len(group_list) THEN "project" ELSE "groups"
                       /\ UNCHANGED eerror
    /\ UNCHANGED <<entry, params, group_list, li, files, sdFolder, preexisting, removed,
                   staged, publishCalls>>
    /\ UNCHANGED <<psVars, platVars, shVars>>

\* lines 265-267: open the project, take the map, enter the loop
ExecOpenProject ==
    /\ epc = "project"
    /\ \/ \E e \in PlatformErrors \cup {"IndexError"} : ExecRaise(e) /\ UNCHANGED li
       \/ /\ IF params.layers = <<>>
             THEN epc' = "returned" /\ UNCHANGED li
             ELSE epc' = "layer_clean" /\ li' = 1
          /\ UNCHANGED eerror
    /\ UNCHANGED <<entry, params, group_list, share_with_groups, lookups, files, sdFolder,
                   preexisting, removed, staged, publishCalls>>
    /\ UNCHANGED <<psVars, platVars, shVars>>

\* lines 268-275: compute the two paths, remove the files that exist there
ExecCleanStale ==
    /\ epc = "layer_clean"
    /\ LET layer == params.layers[li]
           fs == StalePaths(DraftPath(layer), SDPath(layer))
           stale == SelectSeq(fs, LAMBDA f : f \in files)
       IN /\ preexisting' = {DraftPath(layer), SDPath(layer)} \cap files
          /\ removed' = removed \o [k \in 1..Len(stale) |-> [layer |-> li, path |-> stale[k]]]
          /\ files' = files \ Range(stale)
    /\ epc' = "layer_draft"
    /\ UNCHANGED <<entry, eerror, params, group_list, share_with_groups, lookups, li,
                   sdFolder, staged, publishCalls>>
    /\ UNCHANGED <<psVars, platVars, shVars>>

\* lines 276-282: getWebLayerSharingDraft, exportToSDDraft
ExecExportDraft ==
    /\ epc = "layer_draft"
    /\ \/ \E e \in PlatformErrors : ExecRaise(e) /\ UNCHANGED <<files, staged>>
       \/ /\ files' = files \cup {DraftPath(params.layers[li])}
          /\ staged' = staged \cup {DraftPath(params.layers[li])}
          /\ epc' = "layer_stage"
          /\ UNCHANGED eerror
    /\ UNCHANGED <<entry, params, group_list, share_with_groups, lookups, li, sdFolder,
                   preexisting, removed, publishCalls>>
    /\ UNCHANGED <<psVars, platVars, shVars>>

\* lines 284-286: arcpy.StageService_server
ExecStage ==
    /\ epc = "layer_stage"
    /\ \/ \E e \in PlatformErrors : ExecRaise(e) /\ UNCHANGED <<files, staged>>
       \/ /\ files' = files \cup {SDPath(params.layers[li])}
          /\ staged' = staged \cup {SDPath(params.layers[li])}
          /\ epc' = "layer_publish"
          /\ UNCHANGED eerror
    /\ UNCHANGED <<entry, params, group_list, share_with_groups, lookups, li, sdFolder,
                   preexisting, removed, publishCalls>>
    /\ UNCHANGED <<psVars, platVars, shVars>>

\* lines 288-289: the call of publish_service; a call that leaves a parameter
\* without a value raises TypeError before the body runs
ExecPublish ==
    /\ epc = "layer_publish"
    /\ LET kw == PublishKwargs(params.layers[li])
       IN IF MissingArgs(kw) # {}
          THEN /\ ExecRaise("TypeError")
               /\ publishCalls' = Append(publishCalls,
                      [layer |-> li, keywords |-> DOMAIN kw, entered |-> FALSE])
               /\ UNCHANGED psVars
          ELSE /\ epc' = "in_publish"
               /\ publishCalls' = Append(publishCalls,
                      [layer |-> li, keywords |-> DOMAIN kw, entered |-> TRUE])
               /\ pc' = [pc EXCEPT !["A"] = "search"]
               /\ args' = [args EXCEPT !["A"] = kw]
               /\ service_def_item' = [service_def_item EXCEPT !["A"] = NoItem]
               /\ source_item' = [source_item EXCEPT !["A"] = NoItem]
               /\ feature_service' = [feature_service EXCEPT !["A"] = NoHandle]
               /\ caught' = [caught EXCEPT !["A"] = ""]
               /\ UNCHANGED <<error, eerror>>
    /\ UNCHANGED <<entry, params, group_list, share_with_groups, lookups, li, files,
                   sdFolder, preexisting, removed, staged>>
    /\ UNCHANGED <<platVars, shVars>>

(***************************************************************************)
(* Initial states.                                                         *)
(***************************************************************************)
ItemTemplates ==
    [title : Names, owner : Owners, type : ItemTypes,
     data : {"old.sd"}, folder : {""}, published : {"no"}]

NoParams ==
    [content_owner |-> "", group_names |-> <<>>, folder_name |-> "", layers |-> <<>>,
     admin_user |-> "",
     share_to_org |-> [t |-> "NoneType", v |-> "None"],
     share_to_everyone |-> [t |-> "NoneType", v |-> "None"]]

NoShare ==
    [feature_service |-> NoHandle,
     share_to_org |-> [t |-> "NoneType", v |-> "None"],
     share_to_everyone |-> [t |-> "NoneType", v |-> "None"],
     share_with_groups |-> <<>>]

IdlePublish ==
    /\ pc = [p \in Procs |-> "idle"]
    /\ args = [p \in Procs |-> NoArgs]
    /\ service_def_item = [p \in Procs |-> NoItem]
    /\ source_item = [p \in Procs |-> NoItem]
    /\ feature_service = [p \in Procs |-> NoHandle]
    /\ caught = [p \in Procs |-> ""]
    /\ error = [p \in Procs |-> ""]

IdleExecute ==
    /\ params = NoParams
    /\ group_list = <<>>
    /\ share_with_groups = <<>>
    /\ lookups = <<>>
    /\ li = 0
    /\ files = {}
    /\ sdFolder = FALSE
    /\ preexisting = {}
    /\ removed = <<>>
    /\ staged = {}
    /\ publishCalls = <<>>

\* publish_service called directly with a connection, against a stubbed platform
InitPublish ==
    /\ entry = "publish_service"
    /\ epc = "idle"
    /\ eerror = ""
    /\ items \in SeqsUpTo(ItemTemplates, MaxInitItems)
    /\ calls = <<>>
    /\ pc = [p \in Procs |-> IF p = "A" THEN "search" ELSE "idle"]
    /\ \E a \in [conn : [user : Owners], service_name : Names, content_owner : Owners,
                 folder : Folders,
                 service_definition : [service : Names, path : {"new.sd"}]] :
          args = [p \in Procs |-> IF p = "A" THEN a ELSE NoArgs]
    /\ service_def_item = [p \in Procs |-> NoItem]
    /\ source_item = [p \in Procs |-> NoItem]
    /\ feature_service = [p \in Procs |-> NoHandle]
    /\ caught = [p \in Procs |-> ""]
    /\ error = [p \in Procs |-> ""]
    /\ IdleExecute
    /\ shArgs = NoShare
    /\ shares = <<>>

NextPublish ==
    \E p \in Procs :
        \/ PS_Search(p)
        \/ PS_Update(p)
        \/ PS_PublishOverwrite(p)
        \/ PS_Add(p)
        \/ PS_PublishNew(p)

SpecPublish == InitPublish /\ [][NextPublish]_vars

\* share_service called directly
InitShare ==
    /\ entry = "share_service"
    /\ epc = "share"
    /\ eerror = ""
    /\ items = <<>>
    /\ calls = <<>>
    /\ IdlePublish
    /\ IdleExecute
    /\ shArgs \in [feature_service : {[item |-> 1, call |-> 1, overwrite |-> TRUE]},
                   share_to_org : PyVals, share_to_everyone : PyVals,
                   share_with_groups : SeqsUpTo({None, GroupOf(<<"g">>).id}, MaxGroups)]
    /\ shares = <<>>

NextShare == ShareService

SpecShare == InitShare /\ [][NextShare]_vars

\* files that may lie in SD_FOLDER before the run
StalePathChoices == {DraftPath(l) : l \in LayerNames} \cup {SDPath(l) : l \in LayerNames}

\* execute run by the tool with its twelve parameters
InitExec ==
    /\ entry = "execute"
    /\ epc = "setup"
    /\ eerror = ""
    /\ items = <<>>
    /\ calls = <<>>
    /\ IdlePublish
    /\ params \in [admin_user : {"alice"}, content_owner : {"alice"},
                   group_names : SeqsUpTo(GroupChars, MaxLen),
                   folder_name : {"Transport"},
                   layers : SeqsUpTo(LayerNames, MaxLayers),
                   share_to_org : {[t |-> "bool", v |-> "True"], [t |-> "bool", v |-> "False"]},
                   share_to_everyone : {[t |-> "bool", v |-> "True"], [t |-> "bool", v |-> "False"]}]
    /\ group_list = <<>>
    /\ share_with_groups = <<>>
    /\ lookups = <<>>
    /\ li = 0
    /\ files \in SUBSET StalePathChoices
    /\ sdFolder \in BOOLEAN
    /\ files # {} => sdFolder
    /\ preexisting = {}
    /\ removed = <<>>
    /\ staged = {}
    /\ publishCalls = <<>>
    /\ shArgs = NoShare
    /\ shares = <<>>

NextExec ==
    \/ ExecSetup
    \/ ExecConnect
    \/ ExecGetGroupId
    \/ ExecOpenProject
    \/ ExecCleanStale
    \/ ExecExportDraft
    \/ ExecStage
    \/ ExecPublish

SpecExec == InitExec /\ [][NextExec]_vars

\* two invocations of publish_service for the same service name and owner,
\* on a platform that holds no matching Service Definition item
InitConc ==
    /\ entry = "concurrent"
    /\ epc = "idle"
    /\ eerror = ""
    /\ calls = <<>>
    /\ pc = [p \in Procs |-> "search"]
    /\ \E n \in Names, o \in Owners, f \in Folders :
          /\ args = [p \in Procs |->
                        [conn |-> [user |-> o], service_name |-> n, content_owner |-> o,
                         folder |-> f,
                         service_definition |-> [service |-> n,
                                                 path |-> IF p = "A" THEN "new_A.sd" ELSE "new_B.sd"]]]
          /\ items \in {its \in SeqsUpTo(ItemTemplates, 1) : MatchingIds(its, n, o) = {}}
    /\ service_def_item = [p \in Procs |-> NoItem]
    /\ source_item = [p \in Procs |-> NoItem]
    /\ feature_service = [p \in Procs |-> NoHandle]
    /\ caught = [p \in Procs |-> ""]
    /\ error = [p \in Procs |-> ""]
    /\ IdleExecute
    /\ shArgs = NoShare
    /\ shares = <<>>

SpecConc == InitConc /\ [][NextPublish]_vars

\* every entry point
Init == InitPublish \/ InitShare \/ InitExec

Next == NextPublish \/ NextShare \/ NextExec

Spec == Init /\ [][Next]_vars

(***************************************************************************)
(* Properties of publish_service, checked under SpecPublish.               *)
(***************************************************************************)
TryOps(c) == c.op \in {"search", "update"} \/ (c.op = "publish" /\ c.overwrite)

\* the two calls of the create branch, as the "no items" case makes them
IsCreateAdd(c, p) ==
    /\ c.op = "add"
    /\ c.data = args[p].service_definition.path
    /\ c.folder = args[p].folder

IsPlainPublishOf(c, addCall) ==
    /\ c.op = "publish"
    /\ c.overwrite = FALSE
    /\ c.item = addCall.item

SearchFound(cs) == Len(cs) >= 1 /\ cs[1].op = "search" /\ cs[1].outcome = "" /\ cs[1].res # <<>>

SearchEmpty(cs) == Len(cs) >= 1 /\ cs[1].op = "search" /\ cs[1].outcome = "" /\ cs[1].res = <<>>

NothingRaised(cs) == \A i \in 1..Len(cs) : cs[i].outcome = ""

\* C1: found case.  When the search returns at least one item and no call
\* raises, the invocation makes exactly search, update(first result, new
\* definition path), publish(first result, overwrite=True); the handle of that
\* publish is the result; content.add is not called.
C1_FoundOverwrites ==
    \A p \in Procs :
        LET cs == CallsOf(p)
        IN (pc[p] = "returned" /\ SearchFound(cs) /\ NothingRaised(cs)) =>
              /\ Len(cs) = 3
              /\ cs[2].op = "update"
              /\ cs[2].item = cs[1].res[1]
              /\ cs[2].data = args[p].service_definition.path
              /\ cs[3].op = "publish"
              /\ cs[3].item = cs[1].res[1]
              /\ cs[3].overwrite = TRUE
              /\ cs[3].ret # NoHandle
              /\ feature_service[p] = cs[3].ret
              /\ items[cs[1].res[1]].data = args[p].service_definition.path
              /\ CountOp(p, "add") = 0

\* a finished found-case invocation whose search returned several items
C1_Witness ==
    \E p \in Procs :
        /\ pc[p] = "returned"
        /\ SearchFound(CallsOf(p))
        /\ NothingRaised(CallsOf(p))
        /\ Len(CallsOf(p)[1].res) >= 2
        /\ feature_service[p].overwrite

\* C2: not-found case.  When the search returns no items, update and
\* publish(overwrite=True) are never called, content.add is called at most
\* once and exactly once by the time the invocation ends, with the staged
\* definition and the given folder; a returned invocation made exactly search,
\* add, plain publish of the added item, and returns that publish's handle.
C2_NotFoundCreates ==
    \A p \in Procs :
        LET cs == CallsOf(p)
        IN SearchEmpty(cs) =>
              /\ \A i \in 1..Len(cs) : cs[i].op # "update" /\ ~(cs[i].op = "publish" /\ cs[i].overwrite)
              /\ CountOp(p, "add") <= 1
              /\ pc[p] \in {"returned", "raised"} =>
                    /\ CountOp(p, "add") = 1
                    /\ IsCreateAdd(cs[2], p)
              /\ pc[p] = "returned" =>
                    /\ Len(cs) = 3
                    /\ cs[2].outcome = ""
                    /\ items[cs[2].item].folder = args[p].folder
                    /\ items[cs[2].item].data = args[p].service_definition.path
                    /\ IsPlainPublishOf(cs[3], cs[2])
                    /\ cs[3].ret # NoHandle
                    /\ feature_service[p] = cs[3].ret

\* a finished not-found invocation, in a named folder
C2_Witness ==
    \E p \in Procs :
        /\ pc[p] = "returned"
        /\ SearchEmpty(CallsOf(p))
        /\ args[p].folder = "Transport"
        /\ feature_service[p] # NoHandle

\* C3: catch-all fallback.  When search, update or publish(overwrite=True)
\* raises, that error never leaves publish_service: the invocation goes on to
\* content.add with the given folder and then a plain publish of the new item,
\* and a returned invocation returns that publish's handle, as in the
\* "no items" case.
C3_CatchAllFallsBackToCreate ==
    \A p \in Procs :
        LET cs == CallsOf(p)
        IN \A k \in 1..Len(cs) :
              (TryOps(cs[k]) /\ cs[k].outcome # "") =>
                 /\ pc[p] \in {"add", "publish_new", "returned", "raised"}
                 /\ Len(cs) <= k + 2
                 /\ pc[p] = "raised" => (Len(cs) > k /\ error[p] = cs[Len(cs)].outcome)
                 /\ Len(cs) >= k + 1 => IsCreateAdd(cs[k + 1], p)
                 /\ Len(cs) = k + 2 => IsPlainPublishOf(cs[k + 2], cs[k + 1])
                 /\ pc[p] = "returned" =>
                       /\ Len(cs) = k + 2
                       /\ cs[k + 2].outcome = ""
                       /\ feature_service[p] = cs[k + 2].ret
                       /\ ~feature_service[p].overwrite

\* the search raised although a matching item is on the platform, and the
\* invocation returned a freshly created service
C3_Witness ==
    \E p \in Procs :
        /\ pc[p] = "returned"
        /\ CallsOf(p)[1].op = "search"
        /\ CallsOf(p)[1].outcome \in PlatformErrors
        /\ MatchingIds(items, args[p].service_name, args[p].content_owner) # {}
        /\ CountOp(p, "add") = 1

\* C7: single branch per invocation.  No invocation both updates an existing
\* item and adds new content.
C7_OneBranchPerInvocation ==
    \A p \in Procs :
        ~ /\ \E i \in 1..Len(calls) : calls[i].proc = p /\ calls[i].op = "update" /\ calls[i].outcome = ""
          /\ \E i \in 1..Len(calls) : calls[i].proc = p /\ calls[i].op = "add" /\ calls[i].outcome = ""

(***************************************************************************)
(* Properties of share_service, checked under SpecShare.                   *)
(***************************************************************************)
ShareFinished == entry = "share_service" /\ epc \in {"returned", "raised"}

\* C4: share guard.  Once share_service has run, feature_service.share was
\* called exactly once, with org, everyone and groups as they were passed in,
\* if one of the three is truthy or non-empty, and was not called if both
\* flags are falsy and the group list is empty; it is never called twice.
C4_ShareGuard ==
    /\ Len(shares) <= 1
    /\ epc = "share" => shares = <<>>
    /\ ShareFinished =>
          IF Truthy(shArgs.share_to_org) \/ Truthy(shArgs.share_to_everyone)
                \/ shArgs.share_with_groups # <<>>
          THEN /\ Len(shares) = 1
               /\ shares[1].call.feature_service = shArgs.feature_service
               /\ shares[1].call.org = shArgs.share_to_org
               /\ shares[1].call.everyone = shArgs.share_to_everyone
               /\ shares[1].call.groups = shArgs.share_with_groups
          ELSE shares = <<>>

\* both flags falsy and a group list holding only a null: share is called
C4_Witness ==
    /\ ShareFinished
    /\ epc = "returned"
    /\ ~Truthy(shArgs.share_to_org)
    /\ ~Truthy(shArgs.share_to_everyone)
    /\ shArgs.share_with_groups = <<None>>
    /\ Len(shares) = 1

(***************************************************************************)
(* Properties of execute, checked under SpecExec.                          *)
(***************************************************************************)
ExecEnded == entry = "execute" /\ epc \in {"returned", "raised"}

\* a call into the platform or the toolkit raised and ended execute
StubRaised == eerror \in PlatformErrors \cup {"IndexError"}

GroupsResolved ==
    entry = "execute" /\ epc \notin {"setup", "connect", "groups"} /\ ~(epc = "raised" /\ li = 0)

\* the list execute builds: one entry per requested name, in order, null where
\* the search raised or found nothing, the found group's id otherwise
GroupListShape ==
    /\ Len(share_with_groups) = Len(lookups)
    /\ Len(share_with_groups) <= Len(group_list)
    /\ GroupsResolved => Len(share_with_groups) = Len(group_list)
    /\ \A i \in 1..Len(share_with_groups) :
          IF lookups[i] \in {"raised", "empty"}
          THEN share_with_groups[i] = None
          ELSE share_with_groups[i] = GroupOf(group_list[i]).id

\* C5: group resolution tolerates lookup failure.  get_group_id yields null
\* and never raises, the list has one entry per requested group in order with
\* null for each failed lookup, and, for a run with a layer to publish in
\* which no platform or toolkit call raised, the share call is made with that
\* list.
C5_ShareProceedsWithNulls ==
    /\ GroupListShape
    /\ (ExecEnded /\ ~StubRaised /\ params.layers # <<>> /\ group_list # <<>>) =>
          \E i \in 1..Len(shares) : shares[i].call.groups = share_with_groups

\* C6: staging-artifact deletion.  For the layer being processed, each of the
\* two paths that held a file was removed, once, before the draft export and
\* the staging; a path that held no file was not removed; and every file the
\* export and the staging wrote is still on disk, up to and including the end
\* of execute.
C6_StaleFilesRemovedStagedFilesKept ==
    /\ \A i \in 1..Len(removed) :
          /\ removed[i].layer = li => removed[i].path \in preexisting
          /\ \A j \in 1..Len(removed) : removed[i] = removed[j] => i = j
    /\ (entry = "execute" /\ li >= 1 /\ epc # "layer_clean") =>
          \A f \in preexisting : \E i \in 1..Len(removed) : removed[i] = [layer |-> li, path |-> f]
    /\ epc = "layer_draft" =>
          /\ DraftPath(params.layers[li]) \notin files
          /\ SDPath(params.layers[li]) \notin files
    /\ epc = "layer_stage" => SDPath(params.layers[li]) \notin files
    /\ staged \subseteq files
    /\ epc = "layer_publish" =>
          staged = {DraftPath(params.layers[li]), SDPath(params.layers[li])}

\* execute has ended; both paths held a stale file, both were removed, both
\* were written again and are on disk
C6_Witness ==
    /\ ExecEnded
    /\ Cardinality(preexisting) = 2
    /\ Len(removed) = 2
    /\ Cardinality(staged) = 2
    /\ staged \subseteq files

\* C10: every selected layer reaches the publish-or-overwrite decision.  In a
\* run in which no platform or toolkit call raises, execute returns normally,
\* having called publish_service once per layer, in order, with the connection
\* among its arguments.
C10_EveryLayerPublished ==
    (ExecEnded /\ ~StubRaised) =>
        /\ epc = "returned"
        /\ Len(publishCalls) = Len(params.layers)
        /\ \A i \in 1..Len(publishCalls) :
              /\ publishCalls[i].layer = i
              /\ publishCalls[i].entered
              /\ "conn" \in publishCalls[i].keywords

(***************************************************************************)
(* Concurrent invocations, checked under SpecConc.                         *)
(***************************************************************************)
ItemsFor(service_name, owner) == MatchingIds(items, service_name, owner)

\* C8: search-then-create is not serialised.  Whenever both invocations got an
\* empty search result and have returned, each of them has added an item and
\* the platform holds two Service Definition items for the one name and owner.
C8_BothCreate ==
    (\A p \in Procs : pc[p] = "returned" /\ SearchEmpty(CallsOf(p))) =>
        /\ \A p \in Procs :
              /\ CountOp(p, "add") = 1
              /\ CountOp(p, "update") = 0
              /\ ~feature_service[p].overwrite
        /\ source_item["A"] # source_item["B"]
        /\ Cardinality(ItemsFor(args["A"].service_name, args["A"].content_owner)) = 2

\* the interleaving of the claim: both searches ran before either add
C8_Witness ==
    /\ \A p \in Procs : pc[p] = "returned" /\ SearchEmpty(CallsOf(p))
    /\ calls[1].op = "search" /\ calls[2].op = "search"
    /\ calls[1].proc # calls[2].proc
    /\ args["A"].service_name = args["B"].service_name
    /\ args["A"].content_owner = args["B"].content_owner
    /\ Cardinality(ItemsFor(args["A"].service_name, args["A"].content_owner)) = 2

(***************************************************************************)
(* No retry, no recovery, checked under Spec (every entry point).          *)
(***************************************************************************)
\* the plain publish at position k of cs raised after a successful add
CreatePublishFailed(cs, k) ==
    /\ k >= 2
    /\ cs[k - 1].op = "add" /\ cs[k - 1].outcome = ""
    /\ cs[k].op = "publish" /\ cs[k].outcome # ""

C9_State ==
    /\ \A p \in Procs :
          /\ CountOp(p, "search") <= 1
          /\ CountOp(p, "update") <= 1
          /\ CountOp(p, "add") <= 1
    /\ \A p \in Procs :
          LET cs == CallsOf(p)
          IN \A k \in 1..Len(cs) :
                CreatePublishFailed(cs, k) =>
                   /\ k = Len(cs)
                   /\ pc[p] = "raised"
                   /\ error[p] = cs[k].outcome
                   /\ feature_service[p] = NoHandle
                   /\ entry = "execute" => (epc = "raised" /\ eerror = cs[k].outcome)
                   /\ cs[k - 1].item \in 1..Len(items)
                   /\ items[cs[k - 1].item] =
                         NewItem(args[p].conn, args[p].service_definition, args[p].folder)
    /\ \A i \in 1..Len(shares) :
          shares[i].outcome # "" =>
             /\ i = Len(shares)
             /\ epc = "raised"
             /\ eerror = shares[i].outcome
    /\ entry = "execute" =>
          /\ \A i \in 1..Len(shares) : shares[i].call.feature_service # NoHandle
          /\ feature_service["A"] = NoHandle => shares = <<>>
          /\ Len(publishCalls) <= li
          /\ \A i \in 1..Len(removed) : removed[i].layer <= li

\* once an error has left the entry point nothing more is done
C9_Action ==
    /\ epc = "raised" => UNCHANGED vars
    /\ \A p \in Procs : pc[p] = "raised" => (pc'[p] = "raised" /\ calls' = calls /\ items' = items)

\* C9: no retry, no recovery.  Search, update and add are each attempted at
\* most once per invocation; when add succeeds and the plain publish raises,
\* or share raises, the error leaves the entry point, no further call is
\* made, and the uploaded item stays on the platform unpublished; execute
\* calls share_service only with a handle publish_service returned, and once
\* an error has left execute no later layer is touched.
C9_NoRetryNoRecovery == []C9_State /\ [][C9_Action]_vars

\* the upload succeeded, the publish raised, the error left the function and
\* the uploaded item is still there
C9_Witness ==
    \E p \in Procs :
        LET cs == CallsOf(p)
        IN /\ Len(cs) >= 2
           /\ CreatePublishFailed(cs, Len(cs))
           /\ pc[p] = "raised"
           /\ items[cs[Len(cs) - 1].item].published = "no"

=============================================================================
